---- MODULE Spec2Model ----
(***************************************************************************)
(* Model of src/Hello.py, the Wastewater Impact Dashboard.                 *)
(*                                                                         *)
(* The script is re-executed from its first line on every user             *)
(* interaction.  One run is modelled as the sequence of its stages (pc);   *)
(* the only state that survives from one run to the next is the widget     *)
(* state of the session (widgets, clicked) and the file on disk.           *)
(*                                                                         *)
(* Encoding of values:                                                     *)
(*   - a cell that may be None/NaN and is numeric is an option: << >> for  *)
(*     None, <<x>> for the number x;                                       *)
(*   - a missing Health_Impact is the string NaN;                          *)
(*   - coordinates are in units of 1e-4 degree, so that they are integers; *)
(*   - a script variable that is not bound yet holds the empty value of    *)
(*     its type; "executed" tells which stages of the run have run.        *)
(***************************************************************************)
EXTENDS Integers, Sequences, FiniteSets, TLC

VARIABLES
    file,                  \* the file at data_path (fixed for the session)
    pc,                    \* the stage the current run is at, or how it ended
    executed,              \* the stages the current run has executed
    messages,              \* the st.error messages of the current run
    data,                  \* the DataFrame "data"
    year_range,            \* script variables of the sidebar
    entity_filter,
    health_impact_filter,
    filtered_data,
    view_state,
    map_layer,
    health_data,
    env_data,
    pie_data,
    widgets,               \* session: the value each registered widget holds
    clicked,               \* session: the Refresh button was clicked
    runs,                  \* number of script runs started in the session
    loads,                 \* number of times pd.read_csv returned a frame
    shown                  \* what the page showed when Refresh was clicked

vars == <<file, pc, executed, messages, data, year_range, entity_filter,
          health_impact_filter, filtered_data, view_state, map_layer,
          health_data, env_data, pie_data, widgets, clicked, runs, loads,
          shown>>

-----------------------------------------------------------------------------
(* Bounds of the model *)

MaxRows == 2
MaxRuns == 4

-----------------------------------------------------------------------------
(* Values *)

None == << >>
Some(x) == <<x>>
NaN == "NaN"

DischargeCol == "Total discharges to Inland waters(million m3)"
DeathCol == "Premature_Death_Count"

Range(s) == {s[i] : i \in DOMAIN s}

\* country_coords, in units of 1e-4 degree
country_coords ==
    [e \in {"Australia", "Belarus", "Belgium", "Bulgaria", "Costa Rica",
            "Croatia", "Czechia", "Denmark", "Estonia"} |->
        CASE e = "Australia"  -> <<-252744, 1337751>>
          [] e = "Belarus"    -> <<537098, 279534>>
          [] e = "Belgium"    -> <<505039, 44699>>
          [] e = "Bulgaria"   -> <<427339, 254858>>
          [] e = "Costa Rica" -> <<97489, -837534>>
          [] e = "Croatia"    -> <<451000, 152000>>
          [] e = "Czechia"    -> <<498175, 154730>>
          [] e = "Denmark"    -> <<562639, 95018>>
          [] e = "Estonia"    -> <<585953, 250136>>]

\* country_coords.get(x, (None, None))
CoordsGet(x) ==
    IF x \in DOMAIN country_coords
    THEN <<Some(country_coords[x][1]), Some(country_coords[x][2])>>
    ELSE <<None, None>>

-----------------------------------------------------------------------------
(* The input file *)

CsvColumns == {"Entity", "Year", "Health_Impact", DeathCol, DischargeCol}

CsvRow(e, y, h, d, w) ==
    ("Entity" :> e) @@ ("Year" :> y) @@ ("Health_Impact" :> h)
        @@ (DeathCol :> d) @@ (DischargeCol :> w)

\* The rows a file of the model is made of
Pool ==
    { CsvRow("Australia", 2015, "High", 10, 3),
      CsvRow("Australia", 2016, NaN,     5, 2),
      CsvRow("Belgium",   2015, "High",  7, 1),
      CsvRow("Atlantis",  2016, "Low",   4, 6),
      CsvRow("Belgium",   2021, "Low",   2, 4) }

RowSeqs == UNION {[1..n -> Pool] : n \in 0..MaxRows}

Restrict(r, cols) == [c \in cols |-> r[c]]

\* A file is missing, unparsable, or a CSV with all the columns or one short
Files ==
    {[kind |-> "missing", columns |-> {}, rows |-> << >>],
     [kind |-> "malformed", columns |-> {}, rows |-> << >>]}
    \cup
    {[kind |-> "csv", columns |-> cols,
      rows |-> [i \in DOMAIN rs |-> Restrict(rs[i], cols)]] :
        cols \in {CsvColumns} \cup {CsvColumns \ {c} : c \in CsvColumns},
        rs \in RowSeqs}

-----------------------------------------------------------------------------
(* pandas *)

NoFrame == [columns |-> {}, rows |-> << >>]

\* pd.read_csv: the columns of the file, the rows under a RangeIndex
read_csv(f) ==
    [columns |-> f.columns,
     rows |-> [i \in DOMAIN f.rows |-> f.rows[i] @@ ("index" :> i - 1)]]

\* df[name] = values (values[i] for row i)
SetColumn(df, name, values) ==
    [columns |-> df.columns \cup {name},
     rows |-> [i \in DOMAIN df.rows |->
                 (name :> values[i]) @@ df.rows[i]]]

\* df[col] as the sequence of its cells
Column(df, col) == [i \in DOMAIN df.rows |-> df.rows[i][col]]

RECURSIVE Unique(_)
\* Series.unique(): the distinct values in order of first appearance
Unique(s) ==
    IF s = << >> THEN << >>
    ELSE LET init == Unique(SubSeq(s, 1, Len(s) - 1))
             last == s[Len(s)]
         IN IF last \in Range(init) THEN init ELSE Append(init, last)

\* isin, were it to look at the first selected value only
isin_FirstOnly(x, values) == values # << >> /\ values[1] = x

\* Series.isin(values): membership; NaN matches NaN
isin(x, values) == \E i \in DOMAIN values : values[i] = x

SetMin(S) == CHOOSE x \in S : \A y \in S : x <= y
SetMax(S) == CHOOSE x \in S : \A y \in S : x >= y

RECURSIVE SortedSeq(_)
\* the elements of a finite set of integers in ascending order
SortedSeq(S) ==
    IF S = {} THEN << >>
    ELSE <<SetMin(S)>> \o SortedSeq(S \ {SetMin(S)})

RECURSIVE SumWhere(_, _, _)
\* the sum of column col over the rows of the sequence whose Year is y
SumWhere(rows, col, y) ==
    IF rows = << >> THEN 0
    ELSE (IF rows[1]["Year"] = y THEN rows[1][col] ELSE 0)
         + SumWhere(Tail(rows), col, y)

\* groupby, were it called with sort=False: the years in order of appearance
GroupSumByYear_Unsorted(df, col) ==
    LET years == Unique(Column(df, "Year"))
    IN [k \in DOMAIN years |->
          ("Year" :> years[k]) @@ (col :> SumWhere(df.rows, col, years[k]))]

\* df.groupby('Year')[col].sum().reset_index()
GroupSumByYear(df, col) ==
    LET years == SortedSeq({df.rows[i]["Year"] : i \in DOMAIN df.rows})
    IN [k \in DOMAIN years |->
          ("Year" :> years[k]) @@ (col :> SumWhere(df.rows, col, years[k]))]

\* df[col].value_counts().reset_index(): one row per non-null value
\* (value_counts drops NaN), as a set since the order of ties is not fixed
ValueCounts(df, col) ==
    {[Health_Impact |-> c,
      Count |-> Cardinality({i \in DOMAIN df.rows : df.rows[i][col] = c})] :
        c \in {df.rows[i][col] : i \in DOMAIN df.rows} \ {NaN}}

RECURSIVE SumOpt(_)
\* the sum of the non-null cells of a sequence of options
SumOpt(s) ==
    IF s = << >> THEN 0
    ELSE (IF s[1] = None THEN 0 ELSE s[1][1]) + SumOpt(Tail(s))

\* Series.mean(): NaN is skipped; the mean is kept as the fraction
\* <<sum, count>>, and is None (NaN) when no cell is non-null
Mean(s) ==
    LET n == Cardinality({i \in DOMAIN s : s[i] # None})
    IN IF n = 0 THEN None ELSE Some(<<SumOpt(s), n>>)

-----------------------------------------------------------------------------
(* Streamlit widgets *)

DefaultLo == 2015
DefaultHi == 2019

\* The slider positions the model lets the user choose from
YearStops == {2015, 2016, 2019, 2021}

\* st.sidebar.slider(label, min_value, max_value, value): the slider widens
\* its bounds so that they hold the default value
SliderBounds(df) ==
    LET years == Range(Column(df, "Year"))
    IN <<IF SetMin(years) < DefaultLo THEN SetMin(years) ELSE DefaultLo,
         IF SetMax(years) > DefaultHi THEN SetMax(years) ELSE DefaultHi>>

\* the value a widget returns: what the session holds for it, else its default
WidgetValue(w, default) == IF w = None THEN default ELSE w[1]

NoWidgets == [year |-> None, entity |-> None, health |-> None]

-----------------------------------------------------------------------------
(* The stages of the script *)

\* the filter, were its upper year bound exclusive
ApplyFilters_ExclusiveUpper(df, yr, ef, hf) ==
    LET Keep(r) == /\ r["Year"] >= yr[1]
                   /\ r["Year"] < yr[2]
                   /\ isin(r["Entity"], ef)
                   /\ isin(r["Health_Impact"], hf)
    IN [columns |-> df.columns, rows |-> SelectSeq(df.rows, Keep)]

\* data[(Year >= lo) & (Year <= hi) & Entity.isin(..) & Health_Impact.isin(..)]
ApplyFilters(df, yr, ef, hf) ==
    LET Keep(r) == /\ r["Year"] >= yr[1]
                   /\ r["Year"] <= yr[2]
                   /\ isin(r["Entity"], ef)
                   /\ isin(r["Health_Impact"], hf)
    IN [columns |-> df.columns, rows |-> SelectSeq(df.rows, Keep)]

\* lambda x: [255, 0, 0, 160] if x == 'High' else [0, 255, 0, 160]
Color(x) == IF x = "High" THEN <<255, 0, 0, 160>> ELSE <<0, 255, 0, 160>>

\* the enrichment, were both columns to take element [0] of the pair
Enriched_LatitudeTwice(df) ==
    LET lat == [i \in DOMAIN df.rows |-> CoordsGet(df.rows[i]["Entity"])[1]]
    IN SetColumn(SetColumn(df, "latitude", lat), "longitude", lat)

\* data['latitude'] = ..., data['longitude'] = ...
Enriched(df) ==
    LET lat == [i \in DOMAIN df.rows |-> CoordsGet(df.rows[i]["Entity"])[1]]
        lon == [i \in DOMAIN df.rows |-> CoordsGet(df.rows[i]["Entity"])[2]]
    IN SetColumn(SetColumn(df, "latitude", lat), "longitude", lon)

\* pdk.ViewState(latitude=..mean(), longitude=..mean(), zoom=3)
ViewState(fd) ==
    [latitude |-> Mean(Column(fd, "latitude")),
     longitude |-> Mean(Column(fd, "longitude")),
     zoom |-> 3]

\* filtered_data['color'] = filtered_data['Health_Impact'].apply(...)
WithColor(fd) ==
    SetColumn(fd, "color",
              [i \in DOMAIN fd.rows |-> Color(fd.rows[i]["Health_Impact"])])

\* pdk.Layer('ScatterplotLayer', data=filtered_data, ...)
MapLayer(fd) == [type |-> "ScatterplotLayer", data |-> fd]

Ended == {"done", "stopped", "exception"}

\* the script's namespace at the start of a run
FreshRun ==
    /\ pc' = "load"
    /\ executed' = {}
    /\ messages' = {}
    /\ data' = NoFrame
    /\ year_range' = << >>
    /\ entity_filter' = << >>
    /\ health_impact_filter' = << >>
    /\ filtered_data' = NoFrame
    /\ view_state' = None
    /\ map_layer' = None
    /\ health_data' = << >>
    /\ env_data' = << >>
    /\ pie_data' = {}
    /\ runs' = runs + 1

Init ==
    /\ file \in Files
    /\ pc = "load"
    /\ executed = {}
    /\ messages = {}
    /\ data = NoFrame
    /\ year_range = << >>
    /\ entity_filter = << >>
    /\ health_impact_filter = << >>
    /\ filtered_data = NoFrame
    /\ view_state = None
    /\ map_layer = None
    /\ health_data = << >>
    /\ env_data = << >>
    /\ pie_data = {}
    /\ widgets = NoWidgets
    /\ clicked = FALSE
    /\ runs = 1
    /\ loads = 0
    /\ shown = None

\* lines 16-20: try: data = pd.read_csv(data_path) except FileNotFoundError
LoadData ==
    /\ pc = "load"
    /\ executed' = executed \cup {"load"}
    /\ CASE file.kind = "missing" ->
              /\ messages' = messages \cup {"Failed to load data"}
              /\ pc' = "stopped"
              /\ UNCHANGED <<data, loads>>
         [] file.kind = "malformed" ->
              /\ pc' = "exception"
              /\ UNCHANGED <<messages, data, loads>>
         [] file.kind = "csv" ->
              /\ data' = read_csv(file)
              /\ loads' = loads + 1
              /\ pc' = "enrich"
              /\ UNCHANGED messages
    /\ UNCHANGED <<file, year_range, entity_filter, health_impact_filter,
                   filtered_data, view_state, map_layer, health_data,
                   env_data, pie_data, widgets, clicked, runs, shown>>

\* lines 36-41: the coordinate columns, or the Entity column is missing
Enrich ==
    /\ pc = "enrich"
    /\ executed' = executed \cup {"enrich"}
    /\ IF "Entity" \in data.columns
       THEN /\ data' = Enriched(data)
            /\ pc' = "sidebar"
            /\ UNCHANGED messages
       ELSE /\ messages' = messages \cup {"The expected 'Entity' column is not in the dataset."}
            /\ pc' = "stopped"
            /\ UNCHANGED data
    /\ UNCHANGED <<file, year_range, entity_filter, health_impact_filter,
                   filtered_data, view_state, map_layer, health_data,
                   env_data, pie_data, widgets, clicked, runs, loads, shown>>

\* line 71, were the slider to reject a default outside min_value..max_value
SliderFails_DefaultOutOfRange(df) ==
    \/ "Year" \notin df.columns
    \/ df.rows = << >>
    \/ SetMin(Range(Column(df, "Year"))) > DefaultLo
    \/ SetMax(Range(Column(df, "Year"))) < DefaultHi

\* line 71 raises: KeyError 'Year', or int(nan) when the column has no value
SliderFails(df) == "Year" \notin df.columns \/ df.rows = << >>

\* lines 70-76: the three filter widgets, any exception reported and halted
Sidebar ==
    /\ pc = "sidebar"
    /\ executed' = executed \cup {"sidebar"}
    /\ IF SliderFails(data)
       THEN
            /\ messages' = messages \cup {"Error loading filters"}
            /\ pc' = "stopped"
            /\ UNCHANGED <<year_range, entity_filter, health_impact_filter,
                           widgets>>
       ELSE LET yr == WidgetValue(widgets.year, <<DefaultLo, DefaultHi>>)
                ef == WidgetValue(widgets.entity,
                                  Unique(Column(data, "Entity")))
            IN /\ year_range' = yr
               /\ entity_filter' = ef
               /\ IF "Health_Impact" \notin data.columns
                  THEN /\ messages' = messages \cup {"Error loading filters"}
                       /\ pc' = "stopped"
                       /\ widgets' = [widgets EXCEPT !.year = Some(yr),
                                                     !.entity = Some(ef)]
                       /\ UNCHANGED health_impact_filter
                  ELSE LET hf == WidgetValue(widgets.health,
                                     Unique(Column(data, "Health_Impact")))
                       IN /\ health_impact_filter' = hf
                          /\ widgets' = [year |-> Some(yr),
                                         entity |-> Some(ef),
                                         health |-> Some(hf)]
                          /\ pc' = "filter"
                          /\ UNCHANGED messages
    /\ UNCHANGED <<file, data, filtered_data, view_state, map_layer,
                   health_data, env_data, pie_data, clicked, runs, loads,
                   shown>>

\* line 79, were it to rebind data itself (data = data[...])
Filter_InPlace ==
    /\ pc = "filter"
    /\ executed' = executed \cup {"filter"}
    /\ data' = ApplyFilters(data, year_range, entity_filter,
                            health_impact_filter)
    /\ filtered_data' = data'
    /\ pc' = "map"
    /\ UNCHANGED <<file, messages, year_range, entity_filter,
                   health_impact_filter, view_state, map_layer, health_data,
                   env_data, pie_data, widgets, clicked, runs, loads, shown>>

\* line 79
Filter ==
    /\ pc = "filter"
    /\ executed' = executed \cup {"filter"}
    /\ filtered_data' = ApplyFilters(data, year_range, entity_filter,
                                     health_impact_filter)
    /\ pc' = "map"
    /\ UNCHANGED <<file, messages, data, year_range, entity_filter,
                   health_impact_filter, view_state, map_layer, health_data,
                   env_data, pie_data, widgets, clicked, runs, loads, shown>>

\* lines 85-97, were the map built without the test for an empty view
MapVisualization_NoEmptyCheck ==
    /\ pc = "map"
    /\ executed' = executed \cup {"map"}
    /\ view_state' = Some(ViewState(filtered_data))
    /\ filtered_data' = WithColor(filtered_data)
    /\ map_layer' = Some(MapLayer(filtered_data'))
    /\ pc' = "health"
    /\ UNCHANGED <<file, messages, data, year_range, entity_filter,
                   health_impact_filter, health_data, env_data, pie_data,
                   widgets, clicked, runs, loads, shown>>

\* lines 85-99
MapVisualization ==
    /\ pc = "map"
    /\ executed' = executed \cup {"map"}
    /\ IF filtered_data.rows # << >>
       THEN /\ view_state' = Some(ViewState(filtered_data))
            /\ filtered_data' = WithColor(filtered_data)
            /\ map_layer' = Some(MapLayer(filtered_data'))
            /\ UNCHANGED messages
       ELSE /\ messages' = messages \cup {"No data available"}
            /\ UNCHANGED <<view_state, filtered_data, map_layer>>
    /\ pc' = "health"
    /\ UNCHANGED <<file, data, year_range, entity_filter,
                   health_impact_filter, health_data, env_data, pie_data,
                   widgets, clicked, runs, loads, shown>>

\* line 110; a missing column is a KeyError nothing catches
HealthOverTime ==
    /\ pc = "health"
    /\ executed' = executed \cup {"health"}
    /\ IF DeathCol \in filtered_data.columns
       THEN /\ health_data' = GroupSumByYear(filtered_data, DeathCol)
            /\ pc' = "env"
       ELSE /\ pc' = "exception"
            /\ UNCHANGED health_data
    /\ UNCHANGED <<file, messages, data, year_range, entity_filter,
                   health_impact_filter, filtered_data, view_state, map_layer,
                   env_data, pie_data, widgets, clicked, runs, loads, shown>>

\* line 117
EnvOverTime ==
    /\ pc = "env"
    /\ executed' = executed \cup {"env"}
    /\ IF DischargeCol \in filtered_data.columns
       THEN /\ env_data' = GroupSumByYear(filtered_data, DischargeCol)
            /\ pc' = "pie"
       ELSE /\ pc' = "exception"
            /\ UNCHANGED env_data
    /\ UNCHANGED <<file, messages, data, year_range, entity_filter,
                   health_impact_filter, filtered_data, view_state, map_layer,
                   health_data, pie_data, widgets, clicked, runs, loads,
                   shown>>

\* lines 126-132
PieChart ==
    /\ pc = "pie"
    /\ executed' = executed \cup {"pie"}
    /\ pie_data' = ValueCounts(filtered_data, "Health_Impact")
    /\ pc' = "button"
    /\ UNCHANGED <<file, messages, data, year_range, entity_filter,
                   health_impact_filter, filtered_data, view_state, map_layer,
                   health_data, env_data, widgets, clicked, runs, loads,
                   shown>>

\* lines 195-196: the button is True in the run its click started, and then
\* st.experimental_rerun() starts the script again
RefreshButton ==
    /\ pc = "button"
    /\ IF clicked
       THEN /\ clicked' = FALSE
            /\ FreshRun
       ELSE /\ pc' = "done"
            /\ executed' = executed \cup {"button"}
            /\ UNCHANGED <<messages, data, year_range, entity_filter,
                           health_impact_filter, filtered_data, view_state,
                           map_layer, health_data, env_data, pie_data,
                           clicked, runs>>
    /\ UNCHANGED <<file, widgets, loads, shown>>

-----------------------------------------------------------------------------
(* The user: every interaction starts the script again *)

MoveSlider(lo, hi) ==
    /\ pc \in Ended
    /\ runs < MaxRuns
    /\ widgets.year # None
    /\ lo <= hi
    /\ SliderBounds(data)[1] <= lo
    /\ hi <= SliderBounds(data)[2]
    /\ <<lo, hi>> # widgets.year[1]
    /\ widgets' = [widgets EXCEPT !.year = Some(<<lo, hi>>)]
    /\ shown' = None
    /\ FreshRun
    /\ UNCHANGED <<file, clicked, loads>>

\* the multiselect returns the options in the order they were selected
Toggle(sel, x) ==
    IF x \in Range(sel)
    THEN SelectSeq(sel, LAMBDA y : y # x)
    ELSE Append(sel, x)

ChangeEntity(e) ==
    /\ pc \in Ended
    /\ runs < MaxRuns
    /\ widgets.entity # None
    /\ e \in Range(Column(data, "Entity"))
    /\ widgets' = [widgets EXCEPT !.entity = Some(Toggle(widgets.entity[1], e))]
    /\ shown' = None
    /\ FreshRun
    /\ UNCHANGED <<file, clicked, loads>>

ChangeHealthImpact(h) ==
    /\ pc \in Ended
    /\ runs < MaxRuns
    /\ widgets.health # None
    /\ h \in Range(Column(data, "Health_Impact"))
    /\ widgets' = [widgets EXCEPT !.health = Some(Toggle(widgets.health[1], h))]
    /\ shown' = None
    /\ FreshRun
    /\ UNCHANGED <<file, clicked, loads>>

\* the click runs the script twice: once with the button True, once more
\* after st.experimental_rerun()
ClickRefresh ==
    /\ pc = "done"
    /\ runs + 2 <= MaxRuns
    /\ clicked' = TRUE
    /\ shown' = Some([filtered_data |-> filtered_data,
                      health_data |-> health_data,
                      env_data |-> env_data,
                      pie_data |-> pie_data])
    /\ FreshRun
    /\ UNCHANGED <<file, widgets, loads>>

Next ==
    \/ LoadData
    \/ Enrich
    \/ Sidebar
    \/ Filter
    \/ MapVisualization
    \/ HealthOverTime
    \/ EnvOverTime
    \/ PieChart
    \/ RefreshButton
    \/ \E lo \in YearStops, hi \in YearStops : MoveSlider(lo, hi)
    \/ \E e \in {"Australia", "Belgium", "Atlantis"} : ChangeEntity(e)
    \/ \E h \in {"High", "Low", NaN} : ChangeHealthImpact(h)
    \/ ClickRefresh

Spec == Init /\ [][Next]_vars

-----------------------------------------------------------------------------
(* Vocabulary of the properties *)

\* one step of the running script
RunStep ==
    \/ LoadData \/ Enrich \/ Sidebar \/ Filter \/ MapVisualization
    \/ HealthOverTime \/ EnvOverTime \/ PieChart \/ RefreshButton

\* the file is a CSV with every column of the Dataset
HasSchema == file.kind = "csv" /\ file.columns = CsvColumns

\* a row of a frame without the columns added after enrichment
DataKeys == data.columns \cup {"index"}
Stripped(fd) == [i \in DOMAIN fd.rows |-> Restrict(fd.rows[i], DataKeys)]

\* r satisfies the three predicates of the criteria
Matches(r) ==
    /\ year_range[1] <= r["Year"]
    /\ r["Year"] <= year_range[2]
    /\ r["Entity"] \in Range(entity_filter)
    /\ r["Health_Impact"] \in Range(health_impact_filter)

RECURSIVE SumCol(_, _)
SumCol(rows, col) ==
    IF rows = << >> THEN 0 ELSE rows[1][col] + SumCol(Tail(rows), col)

RECURSIVE SumCounts(_)
SumCounts(S) ==
    IF S = {} THEN 0
    ELSE LET x == CHOOSE x \in S : TRUE IN x.Count + SumCounts(S \ {x})

\* the orders in which the elements of s can have been selected
Orders(s) == {p \in [DOMAIN s -> Range(s)] : Range(p) = Range(s)}

Unmapped(r) == r["Entity"] \notin DOMAIN country_coords

\* the stages of a run in the order of the script
Stages == <<"load", "enrich", "sidebar", "filter", "map", "health", "env",
            "pie", "button">>

\* the stage at which the fatal condition of the file shows
FailingStage ==
    CASE file.kind # "csv" -> "load"
      [] "Entity" \notin file.columns -> "enrich"
      [] "Year" \notin file.columns \/ "Health_Impact" \notin file.columns
             -> "sidebar"
      [] DeathCol \notin file.columns -> "health"
      [] OTHER -> "env"

StagesAfter(stage) ==
    {Stages[j] : j \in {k \in DOMAIN Stages :
                          \E i \in DOMAIN Stages : Stages[i] = stage /\ i < k}}

\* the year series: ascending years, one per year of the view, same total
IsYearSeries(series, col) ==
    /\ \A i, j \in DOMAIN series : i < j => series[i]["Year"] < series[j]["Year"]
    /\ {series[i]["Year"] : i \in DOMAIN series}
         = {filtered_data.rows[i]["Year"] : i \in DOMAIN filtered_data.rows}
    /\ SumCol(series, col) = SumCol(filtered_data.rows, col)

-----------------------------------------------------------------------------
(* C1: once the filter has run, the view holds exactly the records of the   *)
(* Dataset whose year is in the inclusive range and whose entity and        *)
(* category are selected, each once, and nothing that is not in the         *)
(* Dataset.                                                                 *)
C1_FilterExact ==
    "filter" \in executed =>
        /\ Range(Stripped(filtered_data)) = {r \in Range(data.rows) : Matches(r)}
        /\ Len(filtered_data.rows) = Cardinality(Range(Stripped(filtered_data)))

C1_Witness ==
    /\ "filter" \in executed
    /\ filtered_data.rows # << >>
    /\ Len(filtered_data.rows) < Len(data.rows)
    /\ \E r \in Range(data.rows) : r["Year"] = year_range[2] /\ Matches(r)

C3_FatalIsReportedAndHalts ==
    (file.kind # "csv" \/ file.columns # CsvColumns) =>
        /\ pc # "exception"
        /\ pc \in Ended => (pc = "stopped" /\ messages # {})
        /\ executed \cap StagesAfter(FailingStage) = {}

(* C4: both year series have strictly ascending years, one entry per year   *)
(* of the view and none for other years, and their sums add up to the       *)
(* total of the field over the view.                                        *)
C4_YearSeries ==
    /\ "health" \in executed /\ pc # "exception"
           => IsYearSeries(health_data, DeathCol)
    /\ "env" \in executed /\ pc # "exception"
           => IsYearSeries(env_data, DischargeCol)

C4_Witness ==
    /\ "env" \in executed
    /\ Len(filtered_data.rows) = 2
    /\ Len(health_data) = 1
    /\ Len(env_data) = 1

(* C5: the category counts cover exactly the categories of the view and     *)
(* add up to the number of records of the view.                             *)
C5_CountsCoverView ==
    "pie" \in executed =>
        /\ {x.Health_Impact : x \in pie_data}
             = {filtered_data.rows[i]["Health_Impact"] :
                  i \in DOMAIN filtered_data.rows}
        /\ SumCounts(pie_data) = Len(filtered_data.rows)

C7_EmptyViewCompletes ==
    (/\ HasSchema
     /\ "filter" \in executed
     /\ \/ entity_filter = << >>
        \/ health_impact_filter = << >>
        \/ filtered_data.rows = << >>) =>
        /\ filtered_data.rows = << >>
        /\ pc \notin {"stopped", "exception"}
        /\ pc \notin Ended => ENABLED RunStep
        /\ "map" \in executed =>
               /\ "No data available" \in messages
               /\ map_layer = None
               /\ view_state = None
        /\ "health" \in executed => health_data = << >>
        /\ "env" \in executed => env_data = << >>
        /\ "pie" \in executed => pie_data = {}

C7_Witness ==
    /\ HasSchema
    /\ pc = "done"
    /\ data.rows # << >>
    /\ entity_filter = << >>
    /\ health_impact_filter # << >>
    /\ executed = {"load", "enrich", "sidebar", "filter", "map", "health",
                   "env", "pie", "button"}

(* C8: a record of the view whose entity has no coordinates is not in the   *)
(* data handed to the map and not in the map centre, and is counted in both *)
(* year series and in the category counts.                                  *)
C8_UnmappedNotOnMap ==
    ("pie" \in executed /\ map_layer # None) =>
        \A i \in DOMAIN filtered_data.rows :
            Unmapped(filtered_data.rows[i]) =>
                /\ \A j \in DOMAIN map_layer[1].data.rows :
                       map_layer[1].data.rows[j]["index"]
                           # filtered_data.rows[i]["index"]
                /\ view_state[1].latitude
                     = Mean(SelectSeq(Column(filtered_data, "latitude"),
                                      LAMBDA c : c # None))
                /\ SumCol(health_data, DeathCol)
                     = SumCol(filtered_data.rows, DeathCol)
                /\ SumCol(env_data, DischargeCol)
                     = SumCol(filtered_data.rows, DischargeCol)
                /\ \E x \in pie_data :
                       x.Health_Impact = filtered_data.rows[i]["Health_Impact"]

(* C9: from enrichment on, in the Dataset and in the view, a record has     *)
(* both coordinates exactly when its entity is in country_coords, and they  *)
(* are the pair of the table; enrichment keeps every record and every       *)
(* other attribute.                                                         *)
C9_Coordinates ==
    ("enrich" \in executed /\ pc # "stopped") =>
        /\ \A r \in Range(data.rows) \cup Range(filtered_data.rows) :
              IF r["Entity"] \in DOMAIN country_coords
              THEN /\ r["latitude"] = <<country_coords[r["Entity"]][1]>>
                   /\ r["longitude"] = <<country_coords[r["Entity"]][2]>>
              ELSE r["latitude"] = None /\ r["longitude"] = None
        /\ [i \in DOMAIN data.rows |-> Restrict(data.rows[i], file.columns)]
             = file.rows

C9_Witness ==
    /\ "map" \in executed
    /\ \E r \in Range(filtered_data.rows) : r["latitude"] = None
    /\ \E r \in Range(filtered_data.rows) : r["latitude"] # None

(* C10: the view and the aggregates depend on which entities and            *)
(* categories are selected, not on the order of selection, and the runs     *)
(* that Refresh starts show the view and the aggregates that were shown     *)
(* when it was clicked.                                                     *)
C10_Deterministic ==
    /\ "filter" \in executed =>
          \A p \in Orders(entity_filter), q \in Orders(health_impact_filter) :
              LET v == ApplyFilters(data, year_range, p, q)
              IN /\ Stripped(filtered_data) = v.rows
                 /\ ("health" \in executed /\ pc # "exception")
                        => health_data = GroupSumByYear(v, DeathCol)
                 /\ ("env" \in executed /\ pc # "exception")
                        => env_data = GroupSumByYear(v, DischargeCol)
                 /\ "pie" \in executed
                        => pie_data = ValueCounts(v, "Health_Impact")
    /\ (shown # None /\ "pie" \in executed) =>
          /\ filtered_data = shown[1].filtered_data
          /\ health_data = shown[1].health_data
          /\ env_data = shown[1].env_data
          /\ pie_data = shown[1].pie_data

C10_Witness ==
    /\ pc = "done"
    /\ shown # None
    /\ ~clicked
    /\ runs >= 4
    /\ Len(entity_filter) >= 2
    /\ filtered_data.rows # << >>
    /\ "color" \in shown[1].filtered_data.columns

====
